---- MODULE Spec2Model ----
(***************************************************************************)
(* Live transcript session of the Vexa dashboard: the useLiveTranscripts   *)
(* hook (src/src/hooks/use-live-transcripts.ts).  The hook owns a          *)
(* WebSocket, a heartbeat interval and a reconnect timeout, and is driven  *)
(* by React effect runs (activate / teardown), by the completions of two   *)
(* fetches (snapshot, runtime config), by timers and by transport events.  *)
(* JavaScript is single threaded: every handler below runs to completion,  *)
(* so one action is one task (with the microtasks it triggers).            *)
(*                                                                         *)
(* Every activating effect run has its own closures (bootstrapFromRest,    *)
(* connect and the handlers connect installs).  The closures of one run    *)
(* form one sequential chain: snapshot fetch, then connect, config fetch,  *)
(* WebSocket, close, reconnect timer, connect, ...  So the objects of the  *)
(* model are named by the run (the epoch) that owns them: sockets[e] is    *)
(* the latest WebSocket made by run e's connect, timers[e] its reconnect   *)
(* timeout.  ChainOK checks that a chain never holds two at once.          *)
(*                                                                         *)
(* Spec is the connection machine under every order of effect runs.        *)
(* SpecBackoff, SpecStable and SpecHeartbeat are sessions that stay        *)
(* active (reconnect chain; repeated activation; heartbeat ticks).         *)
(* SpecFrames delivers transcript frames to one open transport, and       *)
(* SpecRevisions frames whose segments carry revision stamps.  SpecLive is *)
(* an active session with fair timers and a fair network.  SpecPage is     *)
(* the meeting page (src/src/app/login/page.tsx) running the hook next to  *)
(* its own one-shot transcript fetch.  SpecStore drives the two transcript *)
(* stores (useLiveStore of part_012 and useMeetingsStore of                *)
(* src/src/stores/meetings-store.ts) on their own.                         *)
(***************************************************************************)
EXTENDS Integers, FiniteSets, Sequences, TLC

\* ---- program constants (use-live-transcripts.ts:29-33) ----
INITIAL_RECONNECT_DELAY == 1000
MAX_RECONNECT_DELAY == 30000
MAX_RECONNECT_ATTEMPTS == 10

\* ---- bounds of the model ----
\* effect runs that activate the session
MaxActivations == 2
\* heartbeat intervals that outlive their closed socket are counted up to this
MaxLeaked == 1
\* Math.random() is drawn from {0, 1/JitterSteps, ..., 1}; the last value
\* stands for a draw just under 1, which rounds to the same delay
JitterSteps == 2
\* identity keys (absolute_start_time values) are 1..MaxKey
MaxKey == 2
\* relative start times are 0..MaxStart
MaxStart == 1
\* updated_at instants are 1..MaxRev
MaxRev == 2
\* a REST snapshot holds at most MaxSnapshot segments
MaxSnapshot == 2
\* a transcript frame lists at most MaxFrame segments
MaxFrame == 2
\* pings sent on one transport are counted up to MaxPings
MaxPings == 2

Null == 0
Epochs == 1..MaxActivations
CloseCodes == {1000, 1006}
Statuses == {"active", "completed", "failed"}

VARIABLES
  phase,                \* "init" | "active" | "inactive" | "unmounted": last effect run
  epoch,                \* number of activating effect runs so far
  mountedRef, shouldReconnectRef, reconnectAttemptsRef, bootstrappedRef,
  wsRef,                \* the referenced WebSocket (by its epoch), or Null
  pingIntervalRef,      \* the referenced interval (by the epoch of its socket), or Null
  reconnectTimeoutRef,  \* the referenced timeout (by its epoch), or Null
  sockets,              \* epoch -> the latest WebSocket its connect() constructed
  pingIntervals,        \* epochs whose socket has a live setInterval bound to it
  deadIntervals,        \* live intervals whose socket is closed and unreferenced
  timers,               \* epoch -> number of its pending reconnect timeouts
  snapshotFetches,      \* epochs whose vexaAPI.getTranscripts call is in flight
  configFetches,        \* epoch -> number of connect() calls awaiting fetch("/api/config")
  isConnecting, isConnected, connectionError, reconnectAttempts,   \* React state
  meetingStatus,        \* status written by updateMeetingStatus
  lastDelay,            \* delay of the latest setTimeout since the attempt counter was 0
  termSeen,             \* this activation: 0, 1 = a terminal meeting.status was handled,
                        \* 2 = and an abnormal close was handled after it
  snapReqs,             \* snapshot requests issued since the session key last changed
                        \* or isActive was last false
  liveTranscripts,      \* useLiveStore: the liveTranscripts array
  transcripts,          \* useMeetingsStore: the transcripts array
  lastFrame,            \* payload.segments of the transcript frame delivered last
  upsertCalls,          \* the upsertTranscriptSegments calls made for lastFrame:
                        \* the sequence of their arguments
  lastType,             \* what the frame delivered last was: its type, or
                        \* "unparseable" ("none": no frame yet)
  pageFetch             \* the page's fetchTranscripts call for the loaded
                        \* meeting: "idle", "pending" or "done"

vars == <<phase, epoch, mountedRef, shouldReconnectRef, reconnectAttemptsRef,
          bootstrappedRef, wsRef, pingIntervalRef, reconnectTimeoutRef, sockets,
          pingIntervals, deadIntervals, timers, snapshotFetches, configFetches,
          isConnecting, isConnected, connectionError, reconnectAttempts,
          meetingStatus, lastDelay, termSeen, snapReqs, liveTranscripts,
          transcripts, lastFrame, upsertCalls, lastType, pageFetch>>

\* The whole state as one record, so that handlers compose as functions.
Cur ==
  [phase |-> phase, epoch |-> epoch, mountedRef |-> mountedRef,
   shouldReconnectRef |-> shouldReconnectRef,
   reconnectAttemptsRef |-> reconnectAttemptsRef,
   bootstrappedRef |-> bootstrappedRef, wsRef |-> wsRef,
   pingIntervalRef |-> pingIntervalRef,
   reconnectTimeoutRef |-> reconnectTimeoutRef, sockets |-> sockets,
   pingIntervals |-> pingIntervals, deadIntervals |-> deadIntervals,
   timers |-> timers,
   snapshotFetches |-> snapshotFetches, configFetches |-> configFetches,
   isConnecting |-> isConnecting, isConnected |-> isConnected,
   connectionError |-> connectionError, reconnectAttempts |-> reconnectAttempts,
   meetingStatus |-> meetingStatus,
   lastDelay |-> lastDelay, termSeen |-> termSeen, snapReqs |-> snapReqs,
   liveTranscripts |-> liveTranscripts, transcripts |-> transcripts,
   lastFrame |-> lastFrame, upsertCalls |-> upsertCalls, lastType |-> lastType,
   pageFetch |-> pageFetch]

Commit(r) ==
  /\ phase' = r.phase
  /\ epoch' = r.epoch
  /\ mountedRef' = r.mountedRef
  /\ shouldReconnectRef' = r.shouldReconnectRef
  /\ reconnectAttemptsRef' = r.reconnectAttemptsRef
  /\ bootstrappedRef' = r.bootstrappedRef
  /\ wsRef' = r.wsRef
  /\ pingIntervalRef' = r.pingIntervalRef
  /\ reconnectTimeoutRef' = r.reconnectTimeoutRef
  /\ sockets' = r.sockets
  /\ pingIntervals' = r.pingIntervals
  /\ deadIntervals' = r.deadIntervals
  /\ timers' = r.timers
  /\ snapshotFetches' = r.snapshotFetches
  /\ configFetches' = r.configFetches
  /\ isConnecting' = r.isConnecting
  /\ isConnected' = r.isConnected
  /\ connectionError' = r.connectionError
  /\ reconnectAttempts' = r.reconnectAttempts
  /\ meetingStatus' = r.meetingStatus
  /\ lastDelay' = r.lastDelay
  /\ termSeen' = r.termSeen
  /\ snapReqs' = r.snapReqs
  /\ liveTranscripts' = r.liveTranscripts
  /\ transcripts' = r.transcripts
  /\ lastFrame' = r.lastFrame
  /\ upsertCalls' = r.upsertCalls
  /\ lastType' = r.lastType
  /\ pageFetch' = r.pageFetch

\* ---- the WebSocket object ----
\* rs: readyState ("NONE" = never constructed); est: the handshake completed;
\* sub: a subscribe message was sent on it; pings: the pings sent on it (both
\* kept while the socket is not closed).
NoSocket == [rs |-> "NONE", est |-> FALSE, sub |-> FALSE, pings |-> 0]
NewSocket == [rs |-> "CONNECTING", est |-> FALSE, sub |-> FALSE, pings |-> 0]

\* WebSocket.close(): CONNECTING/OPEN -> CLOSING; a no-op otherwise.
WsClose(socks, s) ==
  IF socks[s].rs \in {"CONNECTING", "OPEN"}
  THEN [socks EXCEPT ![s].rs = "CLOSING"]
  ELSE socks

\* The close events the browser can deliver: a transport that never opened
\* fails (error event, then code 1006); an established one closes cleanly with
\* the peer's code, or is lost (code 1006, with or without an error event).
CloseEventsOf(s) ==
  IF sockets[s].est
  THEN {[code |-> c, failed |-> f] : c \in CloseCodes, f \in BOOLEAN} \
         {[code |-> 1000, failed |-> TRUE]}
  ELSE {[code |-> 1006, failed |-> TRUE]}

Min(a, b) == IF a < b THEN a ELSE b

RECURSIVE Pow2(_)
Pow2(n) == IF n = 0 THEN 1 ELSE 2 * Pow2(n - 1)

\* getReconnectDelay with the factor 0.2 of the jitter left out.
getReconnectDelay_wideJitter(attempt, k) ==
  LET delay == Min(INITIAL_RECONNECT_DELAY * Pow2(attempt), MAX_RECONNECT_DELAY)
  IN (delay * (JitterSteps + 2 * k) + JitterSteps) \div (2 * JitterSteps)

\* getReconnectDelay(attempt) with Math.random() = k / JitterSteps:
\* Math.round(delay + delay * 0.2 * (random - 0.5)), Math.round(x) = floor(x + 1/2).
getReconnectDelay(attempt, k) ==
  LET delay == Min(INITIAL_RECONNECT_DELAY * Pow2(attempt), MAX_RECONNECT_DELAY)
  IN (2 * delay * (9 * JitterSteps + 2 * k) + 10 * JitterSteps) \div (20 * JitterSteps)

\* ---- transcript segments and the two stores ----
\* A TranscriptSegment, by the fields the stores read: absolute_start_time (the
\* identity key), start_time (seconds into the meeting), text (a sequence of
\* characters) and updated_at (the instant new Date() parses it to, or
\* Undefined when the field is missing).
Undefined == 0
Keys == 1..MaxKey
Starts == 0..MaxStart
Revs == 1..MaxRev
Texts == {<<"a">>, <<"b">>}
Segments ==
  [absolute_start_time : Keys, start_time : Starts, text : Texts,
   updated_at : Revs \cup {Undefined}]

\* What vexaAPI.getTranscripts can return: up to MaxSnapshot rows with distinct
\* keys, in any order, none carrying updated_at.
SnapshotLists ==
  {list \in UNION {[1..n -> Segments] : n \in 0..MaxSnapshot} :
     /\ \A i \in 1..Len(list) : list[i].updated_at = Undefined
     /\ \A i, j \in 1..Len(list) :
          list[i].absolute_start_time = list[j].absolute_start_time => i = j}

\* Array.prototype.findIndex on absolute_start_time; 0 stands for -1.
RECURSIVE findIndexFrom(_, _, _)
findIndexFrom(list, key, i) ==
  IF i > Len(list) THEN 0
  ELSE IF list[i].absolute_start_time = key THEN i
  ELSE findIndexFrom(list, key, i + 1)

findIndex(list, key) == findIndexFrom(list, key, 1)

\* Array.prototype.sort((a, b) => a.start_time - b.start_time): a stable sort,
\* here by inserting each element behind the elements that are not greater.
RECURSIVE insertByStart(_, _)
insertByStart(sorted, seg) ==
  IF sorted = << >> THEN <<seg>>
  ELSE IF Head(sorted).start_time <= seg.start_time
       THEN <<Head(sorted)>> \o insertByStart(Tail(sorted), seg)
       ELSE <<seg>> \o sorted

RECURSIVE sortByStart(_)
sortByStart(list) ==
  IF list = << >> THEN << >>
  ELSE insertByStart(sortByStart(SubSeq(list, 1, Len(list) - 1)), list[Len(list)])

\* addLiveTranscript without the lookup of the existing segment.
addLiveTranscript_noLookup(list, segment) ==
  sortByStart(Append(list, segment))

\* addLiveTranscript that replaces a stored segment only by a newer revision.
addLiveTranscript_onlyNewer(list, segment) ==
  LET existingIndex == findIndex(list, segment.absolute_start_time)
  IN IF existingIndex # 0
     THEN IF /\ segment.updated_at # Undefined
             /\ list[existingIndex].updated_at # Undefined
             /\ segment.updated_at > list[existingIndex].updated_at
          THEN [list EXCEPT ![existingIndex] = segment]
          ELSE list
     ELSE sortByStart(Append(list, segment))

\* useLiveStore.addLiveTranscript, part_012:42-71.
addLiveTranscript(list, segment) ==
  LET existingIndex == findIndex(list, segment.absolute_start_time)
  IN IF existingIndex # 0
     THEN IF segment.updated_at # Undefined /\ list[existingIndex].updated_at # Undefined
          THEN IF segment.updated_at > list[existingIndex].updated_at
               THEN [list EXCEPT ![existingIndex] = segment]
               ELSE list
          ELSE [list EXCEPT ![existingIndex] = segment]
     ELSE sortByStart(Append(list, segment))

\* useLiveStore.updateLiveTranscript, part_012:73-79.
updateLiveTranscript(list, segment) ==
  [i \in 1..Len(list) |->
     IF list[i].absolute_start_time = segment.absolute_start_time
     THEN segment ELSE list[i]]

\* addTranscriptSegment without the lookup of the existing segment.
addTranscriptSegment_noLookup(list, segment) ==
  sortByStart(Append(list, segment))

\* useMeetingsStore.addTranscriptSegment, meetings-store.ts:122-142.
addTranscriptSegment(list, segment) ==
  LET existingIndex == findIndex(list, segment.absolute_start_time)
  IN IF existingIndex # 0
     THEN [list EXCEPT ![existingIndex] = segment]
     ELSE sortByStart(Append(list, segment))

\* useMeetingsStore.updateTranscriptSegment, meetings-store.ts:145-151.
updateTranscriptSegment(list, segment) ==
  [i \in 1..Len(list) |->
     IF list[i].absolute_start_time = segment.absolute_start_time
     THEN segment ELSE list[i]]

\* ---- transcript frames ----
\* A segment of a transcript.mutable / transcript.finalized frame, by the
\* fields the handler reads.  text is optional: << >> when the field is
\* missing, <<chars>> when it is there; chars may be empty or blank.
WsTexts == {<< >>, <<" ">>, <<"a">>, <<" ", "b">>}
WsSegments ==
  [text : {<< >>} \cup {<<chars>> : chars \in WsTexts},
   absolute_start_time : Keys \cup {Undefined},
   start : {Undefined},
   updated_at : {Undefined}]
Frames == UNION {[1..n -> WsSegments] : n \in 0..MaxFrame}

\* Frames whose segments carry text and may carry a revision stamp
\* (updated_at), as the transcript service sends them for a segment it revises.
RevisionSegments ==
  [text : {<<<<"a">>>>},
   absolute_start_time : Keys,
   start : {Undefined},
   updated_at : Revs \cup {Undefined}]
RevisionFrames == UNION {[1..n -> RevisionSegments] : n \in 1..MaxFrame}

\* String.prototype.trim: white space is stripped from both ends.
RECURSIVE trimStart(_)
trimStart(chars) ==
  IF chars # << >> /\ Head(chars) = " " THEN trimStart(Tail(chars)) ELSE chars

RECURSIVE trimEnd(_)
trimEnd(chars) ==
  IF chars # << >> /\ chars[Len(chars)] = " "
  THEN trimEnd(SubSeq(chars, 1, Len(chars) - 1)) ELSE chars

trim(chars) == trimEnd(trimStart(chars))

\* convertWebSocketSegment, lines 73-89 (start_time: seg.start || 0).
convertWebSocketSegment(seg) ==
  [absolute_start_time |-> seg.absolute_start_time,
   start_time |-> IF seg.start = Undefined THEN 0 ELSE seg.start,
   text |-> seg.text[1],
   updated_at |-> seg.updated_at]

\* The loop of lines 217-224 without its continue.
collectSegments_noFilter(frame) ==
  [i \in 1..Len(frame) |->
     [absolute_start_time |-> frame[i].absolute_start_time,
      start_time |-> 0,
      text |-> IF frame[i].text = << >> THEN << >> ELSE frame[i].text[1],
      updated_at |-> frame[i].updated_at]]

\* The loop of lines 217-224: segments with
\* !seg.text?.trim() || !seg.absolute_start_time are skipped.
RECURSIVE collectSegments(_)
collectSegments(frame) ==
  IF frame = << >> THEN << >>
  ELSE LET seg == Head(frame)
       IN IF \/ seg.text = << >>
             \/ trim(seg.text[1]) = << >>
             \/ seg.absolute_start_time = Undefined
          THEN collectSegments(Tail(frame))
          ELSE <<convertWebSocketSegment(seg)>> \o collectSegments(Tail(frame))

\* useMeetingsStore.upsertTranscriptSegments, which the hook calls and whose
\* code is not at hand: each incoming segment is looked up by its key and
\* inserted when absent; when present it is overwritten unless both carry
\* updated_at and the incoming one is not newer; then the list is sorted by
\* start_time.
RECURSIVE mergeSegments(_, _)
mergeSegments(list, segments) ==
  IF segments = << >> THEN list
  ELSE LET segment == Head(segments)
           i == findIndex(list, segment.absolute_start_time)
           merged == IF i = 0 THEN Append(list, segment)
                     ELSE IF /\ segment.updated_at # Undefined
                             /\ list[i].updated_at # Undefined
                             /\ ~(segment.updated_at > list[i].updated_at)
                          THEN list
                          ELSE [list EXCEPT ![i] = segment]
       IN mergeSegments(merged, Tail(segments))

upsertTranscriptSegments(list, segments) == sortByStart(mergeSegments(list, segments))

\* ---- the hook's functions, as functions of the state record ----

\* clearInterval(pingIntervalRef.current); pingIntervalRef.current = null
clearPing(r) ==
  IF r.pingIntervalRef # Null
  THEN [r EXCEPT !.pingIntervals = @ \ {r.pingIntervalRef}, !.pingIntervalRef = Null]
  ELSE r

\* cleanup(), lines 122-135
cleanup(r) ==
  LET r1 == clearPing(r)
      r2 == IF r1.reconnectTimeoutRef # Null
            THEN [r1 EXCEPT !.timers[r1.reconnectTimeoutRef] = 0,
                            !.reconnectTimeoutRef = Null]
            ELSE r1
  IN IF r2.wsRef # Null
     THEN [r2 EXCEPT !.sockets = WsClose(@, r2.wsRef), !.wsRef = Null]
     ELSE r2

\* connect() up to its first await, lines 138-159; e names the closure.
connect(r, e) ==
  IF ~r.mountedRef \/ ~r.shouldReconnectRef THEN r
  ELSE IF r.wsRef # Null /\ r.sockets[r.wsRef].rs = "OPEN" THEN r
  ELSE
    LET r1 == IF r.wsRef # Null
              THEN [r EXCEPT !.sockets = WsClose(@, r.wsRef), !.wsRef = Null]
              ELSE r
    IN [clearPing(r1) EXCEPT !.isConnecting = TRUE,
                             !.connectionError = "none",
                             !.configFetches[e] = @ + 1]

\* connect() after the await, lines 168-180 and 326-332: the WebSocket is
\* constructed and referenced, or the constructor throws.
connectResume(r, e, ctorThrows) ==
  LET r0 == [r EXCEPT !.configFetches[e] = @ - 1]
  IN IF ctorThrows
     THEN IF ~r0.mountedRef THEN r0
          ELSE [r0 EXCEPT !.isConnecting = FALSE, !.connectionError = "ctor"]
     ELSE [r0 EXCEPT !.sockets[e] = NewSocket, !.wsRef = e]

\* bootstrapFromRest() after its await when getTranscripts resolved, lines
\* 98-102.
bootstrapTry(r, e) ==
  [r EXCEPT !.snapshotFetches = @ \ {e}, !.bootstrappedRef = TRUE]

\* The catch block without bootstrappedRef.current = true.
bootstrapCatch_noFlag(r, e) == [r EXCEPT !.snapshotFetches = @ \ {e}]

\* bootstrapFromRest() after its await when getTranscripts rejected: the catch
\* block, lines 103-107.
bootstrapCatch(r, e) ==
  [r EXCEPT !.snapshotFetches = @ \ {e}, !.bootstrappedRef = TRUE]

\* bootstrapFromRest() after its await, lines 98-107, then the .then(connect)
\* of lines 364-367, which runs as a microtask of the same task.  The rows go
\* to the store's bootstrapTranscripts, which the hook never reads back.
bootstrapResume(r, e, failed) ==
  connect(IF failed THEN bootstrapCatch(r, e) ELSE bootstrapTry(r, e), e)

\* The effect body when isActive and the ids are set, lines 358-367.
effectActive(r) ==
  LET e == r.epoch + 1
      r1 == [r EXCEPT !.phase = "active", !.epoch = e,
                      !.mountedRef = TRUE, !.shouldReconnectRef = TRUE,
                      !.reconnectAttemptsRef = 0, !.reconnectAttempts = 0,
                      !.lastDelay = 0, !.termSeen = 0]
  IN IF r1.bootstrappedRef
     THEN connect(r1, e)
     ELSE [r1 EXCEPT !.snapshotFetches = @ \cup {e}, !.snapReqs = @ + 1]

\* The effect body when not active, lines 346-356.
effectInactive(r) ==
  LET r1 == cleanup([r EXCEPT !.shouldReconnectRef = FALSE])
  IN [r1 EXCEPT !.phase = "inactive",
                !.isConnecting = FALSE, !.isConnected = FALSE,
                !.reconnectAttempts = 0, !.reconnectAttemptsRef = 0,
                !.bootstrappedRef = FALSE, !.lastDelay = 0, !.snapReqs = 0]

\* The effect's cleanup function, lines 370-376.
effectCleanup(r) ==
  LET r1 == cleanup([r EXCEPT !.mountedRef = FALSE, !.shouldReconnectRef = FALSE])
  IN [r1 EXCEPT !.isConnecting = FALSE, !.isConnected = FALSE]

\* ws.onopen, lines 181-205 (the browser has set readyState to OPEN).
onopen(r, s) ==
  IF ~r.mountedRef THEN r
  ELSE [r EXCEPT !.isConnecting = FALSE, !.isConnected = TRUE,
                 !.reconnectAttempts = 0, !.reconnectAttemptsRef = 0,
                 !.lastDelay = 0,
                 !.connectionError = "none",
                 !.sockets[s].sub = TRUE,
                 !.pingIntervals = @ \cup {s},
                 !.pingIntervalRef = s]

\* The setInterval callback without its readyState check.
pingTick_unchecked(r, s) == [r EXCEPT !.sockets[s].pings = @ + 1]

\* The setInterval callback of lines 200-204, for the interval bound to socket s.
pingTick(r, s) ==
  IF r.sockets[s].rs = "OPEN" THEN [r EXCEPT !.sockets[s].pings = @ + 1] ELSE r

\* The meeting.status case without shouldReconnectRef.current = false.
onmessageStatus_keepsReconnect(r, s, status) ==
  IF ~r.mountedRef THEN r
  ELSE LET r1 == [r EXCEPT !.meetingStatus = status]
       IN IF status \in {"completed", "failed"}
          THEN [r1 EXCEPT !.sockets = WsClose(@, s),
                          !.termSeen = IF @ = 0 THEN 1 ELSE @]
          ELSE r1

\* ws.onmessage, case "meeting.status", lines 237-251.
onmessageStatus(r, s, status) ==
  IF ~r.mountedRef THEN r
  ELSE LET r1 == [r EXCEPT !.meetingStatus = status]
       IN IF status \in {"completed", "failed"}
          THEN [r1 EXCEPT !.shouldReconnectRef = FALSE,
                          !.sockets = WsClose(@, s),
                          !.termSeen = IF @ = 0 THEN 1 ELSE @]
          ELSE r1

\* ws.onmessage, cases "transcript.mutable" and "transcript.finalized", lines
\* 214-235; frame is message.payload.segments.
onmessageTranscript(r, s, frame) ==
  IF ~r.mountedRef THEN r
  ELSE LET segments == collectSegments(frame)
       IN IF Len(segments) > 0
          THEN [r EXCEPT !.transcripts = upsertTranscriptSegments(@, segments),
                         !.upsertCalls = Append(@, segments)]
          ELSE r

\* ws.onmessage, case "error", lines 261-264.
onmessageError(r, s) ==
  IF ~r.mountedRef THEN r ELSE [r EXCEPT !.connectionError = "server"]

\* event.data of a message event, by what the handler reads of it: json says
\* whether JSON.parse accepts the text; type, segments (payload.segments) and
\* status (payload.status) are the fields of the parsed message.
Msg(json, type, segments, status) ==
  [json |-> json, type |-> type, segments |-> segments, status |-> status]
TranscriptTypes == {"transcript.mutable", "transcript.finalized"}
Unparseable == Msg(FALSE, "", << >>, "")
Unconsumed == {Unparseable, Msg(TRUE, "unknown", << >>, "")}
AckTypes == {"subscribed", "pong"}

\* The acknowledgment cases taking the frame for proof of a healthy
\* connection and resetting the attempt counter.
onmessageAck_resetsAttempts(r, s) ==
  [r EXCEPT !.reconnectAttemptsRef = 0, !.reconnectAttempts = 0,
            !.connectionError = "none"]

\* ws.onmessage, cases "subscribed" and "pong", lines 253-259: a log line, or
\* nothing.
onmessageAck(r, s) == r

\* The try block with a transcript.finalized case of its own, which takes a
\* finalized segment for the last word whatever its revision stamp.
onmessageTry_finalizedForces(r, s, data) ==
  IF ~data.json THEN [state |-> r, threw |-> TRUE]
  ELSE [state |->
          CASE data.type = "transcript.mutable" ->
                 onmessageTranscript(r, s, data.segments)
            [] data.type = "transcript.finalized" ->
                 onmessageTranscript(r, s,
                   [i \in 1..Len(data.segments) |->
                      [data.segments[i] EXCEPT !.updated_at = Undefined]])
            [] data.type = "meeting.status" -> onmessageStatus(r, s, data.status)
            [] data.type = "error" -> onmessageError(r, s)
            [] data.type \in AckTypes -> onmessageAck(r, s)
            [] OTHER -> r,
        threw |-> FALSE]

\* The try block of ws.onmessage, lines 210-265: JSON.parse, then the switch
\* on message.type.  threw: an exception left the block.
onmessageTry(r, s, data) ==
  IF ~data.json THEN [state |-> r, threw |-> TRUE]
  ELSE [state |->
          CASE data.type \in TranscriptTypes -> onmessageTranscript(r, s, data.segments)
            [] data.type = "meeting.status" -> onmessageStatus(r, s, data.status)
            [] data.type = "error" -> onmessageError(r, s)
            [] data.type \in AckTypes -> onmessageAck(r, s)
            [] OTHER -> r,
        threw |-> FALSE]

\* ws.onmessage without its try/catch.
onmessage_noCatch(r, s, data) ==
  IF ~r.mountedRef THEN [state |-> r, threw |-> FALSE]
  ELSE onmessageTry(r, s, data)

\* ws.onmessage, lines 207-269: the mountedRef check, then the try block; the
\* catch of lines 266-268 logs the exception and ends the handler.
onmessage(r, s, data) ==
  IF ~r.mountedRef THEN [state |-> r, threw |-> FALSE]
  ELSE [state |-> onmessageTry(r, s, data).state, threw |-> FALSE]

\* ws.onerror that also takes the connection for lost.
onerror_disconnects(r, s) ==
  IF ~r.mountedRef THEN r
  ELSE [r EXCEPT !.connectionError = "transport",
                 !.isConnecting = FALSE, !.isConnected = FALSE]

\* ws.onerror, lines 271-290.
onerror(r, s) ==
  IF ~r.mountedRef THEN r ELSE [r EXCEPT !.connectionError = "transport"]

\* ws.onclose whose ceiling test reads the counter before the increment.
onclose_lateCeiling(r, s, code, k) ==
  IF ~r.mountedRef THEN r
  ELSE
    LET r1 == [r EXCEPT !.isConnecting = FALSE, !.isConnected = FALSE,
                        !.termSeen = IF @ = 1 /\ code # 1000 THEN 2 ELSE @]
        r2 == clearPing(r1)
    IN IF r2.shouldReconnectRef /\ code # 1000
       THEN LET attempts == r2.reconnectAttemptsRef + 1
                r3 == [r2 EXCEPT !.reconnectAttemptsRef = attempts,
                                 !.reconnectAttempts = attempts]
            IN IF r2.reconnectAttemptsRef <= MAX_RECONNECT_ATTEMPTS
               THEN [r3 EXCEPT !.timers[s] = @ + 1,
                               !.reconnectTimeoutRef = s,
                               !.lastDelay = getReconnectDelay(attempts, k)]
               ELSE [r3 EXCEPT !.connectionError = "max"]
       ELSE r2

\* ws.onclose, lines 292-325; k is the Math.random() draw of getReconnectDelay.
onclose(r, s, code, k) ==
  IF ~r.mountedRef THEN r
  ELSE
    LET r1 == [r EXCEPT !.isConnecting = FALSE, !.isConnected = FALSE,
                        !.termSeen = IF @ = 1 /\ code # 1000 THEN 2 ELSE @]
        r2 == clearPing(r1)
    IN IF r2.shouldReconnectRef /\ code # 1000
       THEN LET attempts == r2.reconnectAttemptsRef + 1
                r3 == [r2 EXCEPT !.reconnectAttemptsRef = attempts,
                                 !.reconnectAttempts = attempts]
            IN IF attempts <= MAX_RECONNECT_ATTEMPTS
               THEN [r3 EXCEPT !.timers[s] = @ + 1,
                               !.reconnectTimeoutRef = s,
                               !.lastDelay = getReconnectDelay(attempts, k)]
               ELSE [r3 EXCEPT !.connectionError = "max"]
       ELSE r2

\* The setTimeout callback of lines 315-319, run for the timer of epoch t.
reconnectTimer(r, t) ==
  LET r0 == [r EXCEPT !.timers[t] = @ - 1]
  IN IF r0.mountedRef /\ r0.shouldReconnectRef THEN connect(r0, t) ELSE r0

\* The browser's part of a close: readyState is CLOSED before the handlers
\* run; afterwards an interval still bound to the closed socket and no longer
\* referenced can never be cleared, and is only counted from then on.
wsClosed(r, s) ==
  [r EXCEPT !.sockets[s].rs = "CLOSED", !.sockets[s].sub = FALSE,
            !.sockets[s].pings = 0]

retire(r, s) ==
  IF s \in r.pingIntervals /\ r.pingIntervalRef # s
  THEN [r EXCEPT !.pingIntervals = @ \ {s},
                 !.deadIntervals = Min(@ + 1, MaxLeaked)]
  ELSE r

\* ---- the state machine ----

Init ==
  /\ phase = "init"
  /\ epoch = 0
  /\ mountedRef = TRUE
  /\ shouldReconnectRef = TRUE
  /\ reconnectAttemptsRef = 0
  /\ bootstrappedRef = FALSE
  /\ wsRef = Null
  /\ pingIntervalRef = Null
  /\ reconnectTimeoutRef = Null
  /\ sockets = [s \in Epochs |-> NoSocket]
  /\ pingIntervals = {}
  /\ deadIntervals = 0
  /\ timers = [t \in Epochs |-> 0]
  /\ snapshotFetches = {}
  /\ configFetches = [e \in Epochs |-> 0]
  /\ isConnecting = FALSE
  /\ isConnected = FALSE
  /\ connectionError = "none"
  /\ reconnectAttempts = 0
  /\ meetingStatus = "none"
  /\ lastDelay = 0
  /\ termSeen = 0
  /\ snapReqs = 0
  /\ liveTranscripts = << >>
  /\ transcripts = << >>
  /\ lastFrame = << >>
  /\ upsertCalls = << >>
  /\ lastType = "none"
  /\ pageFetch = "idle"

\* First effect run with isActive false (or an empty id).
MountInactive ==
  /\ phase = "init"
  /\ Commit(effectInactive(Cur))

\* A dependency changes while isActive is false: the inactive body runs again
\* (the inactive run before it returned no cleanup function).
RerunInactive ==
  /\ phase = "inactive"
  /\ Commit(effectInactive(Cur))

\* Effect run that activates: the first one, or isActive turning true.
Activate ==
  /\ phase \in {"init", "inactive"}
  /\ epoch < MaxActivations
  /\ Commit(effectActive(Cur))

\* isActive turns false: the cleanup function, then the inactive body.
Deactivate ==
  /\ phase = "active"
  /\ Commit(effectInactive(effectCleanup(Cur)))

\* A dependency changes while active (platform, nativeId, meetingId, or a
\* StrictMode remount): the cleanup function, then the active body.
\* sameKey: platform and nativeId are unchanged.
ParamsChangeWith(sameKey) ==
  /\ phase = "active"
  /\ epoch < MaxActivations
  /\ LET r == effectCleanup(Cur)
     IN Commit(effectActive(IF sameKey THEN r ELSE [r EXCEPT !.snapReqs = 0]))

ParamsChange == \E sameKey \in BOOLEAN : ParamsChangeWith(sameKey)

\* The effect re-runs while isActive stays true and platform and nativeId are
\* unchanged (meetingId changed, or a StrictMode remount).
Reactivate == ParamsChangeWith(TRUE)

\* The component unmounts: the cleanup function of an active effect run.
Unmount ==
  /\ phase = "active"
  /\ Commit([effectCleanup(Cur) EXCEPT !.phase = "unmounted"])

\* vexaAPI.getTranscripts settles, with segments or with an error.
SnapshotDone ==
  \E e \in snapshotFetches, failed \in BOOLEAN :
    Commit(bootstrapResume(Cur, e, failed))

\* fetch("/api/config") settles (either way a URL is at hand).
ConfigDone ==
  \E e \in Epochs, ctorThrows \in BOOLEAN :
    /\ configFetches[e] > 0
    /\ Commit(connectResume(Cur, e, ctorThrows))

TransportOpen ==
  \E s \in Epochs :
    /\ sockets[s].rs = "CONNECTING"
    /\ Commit(onopen([Cur EXCEPT !.sockets[s].rs = "OPEN", !.sockets[s].est = TRUE], s))

TransportStatus ==
  \E s \in Epochs, status \in Statuses :
    /\ sockets[s].rs = "OPEN"
    /\ Commit(onmessageStatus(Cur, s, status))

TransportServerError ==
  \E s \in Epochs :
    /\ sockets[s].rs = "OPEN"
    /\ Commit(onmessageError(Cur, s))

\* The transport closes.  The browser sets readyState to CLOSED and, in one
\* task, fires the error event if the connection failed, then the close event.
TransportClose ==
  \E s \in Epochs :
    /\ sockets[s].rs \in {"CONNECTING", "OPEN", "CLOSING"}
    /\ \E ev \in CloseEventsOf(s), k \in 0..JitterSteps :
         LET r0 == wsClosed(Cur, s)
             r1 == IF ev.failed THEN onerror(r0, s) ELSE r0
         IN Commit(retire(onclose(r1, s, ev.code, k), s))

ReconnectTimerFires ==
  \E t \in Epochs :
    /\ timers[t] > 0
    /\ Commit(reconnectTimer(Cur, t))

Next ==
  \/ MountInactive
  \/ RerunInactive
  \/ Activate
  \/ Deactivate
  \/ ParamsChange
  \/ Unmount
  \/ SnapshotDone
  \/ ConfigDone
  \/ TransportOpen
  \/ TransportStatus
  \/ TransportServerError
  \/ TransportClose
  \/ ReconnectTimerFires

Spec == Init /\ [][Next]_vars

\* One activation that is never torn down: the reconnect chain on its own
\* (connect, transport, close, backoff timer, connect, ...).
NextBackoff ==
  \/ Activate
  \/ SnapshotDone
  \/ ConfigDone
  \/ TransportOpen
  \/ TransportClose
  \/ ReconnectTimerFires

SpecBackoff == Init /\ [][NextBackoff]_vars

\* A session whose key never changes and whose isActive never turns false:
\* activations repeat with the same parameters.
NextStable ==
  \/ Activate
  \/ Reactivate
  \/ SnapshotDone
  \/ ConfigDone
  \/ TransportOpen
  \/ TransportClose
  \/ ReconnectTimerFires

SpecStable == Init /\ [][NextStable]_vars

\* A transcript frame with one of the lists of frames arrives on an open
\* transport.
TransportFrame(frames) ==
  \E s \in Epochs, type \in TranscriptTypes, frame \in frames :
    /\ sockets[s].rs = "OPEN"
    /\ Commit(onmessage([Cur EXCEPT !.lastFrame = frame, !.upsertCalls = << >>,
                                    !.lastType = type],
                        s, Msg(TRUE, type, frame, "")).state)

TransportTranscript == TransportFrame(Frames)

\* A frame arrives that is not JSON, or whose type the switch has no case for.
TransportUnconsumed ==
  \E s \in Epochs, data \in Unconsumed :
    /\ sockets[s].rs = "OPEN"
    /\ Commit(onmessage([Cur EXCEPT !.lastFrame = << >>, !.upsertCalls = << >>,
                                    !.lastType = IF data.json THEN data.type
                                                 ELSE "unparseable"],
                        s, data).state)

\* A subscription acknowledgment or a heartbeat reply arrives.
TransportAck ==
  \E s \in Epochs, type \in AckTypes :
    /\ sockets[s].rs = "OPEN"
    /\ Commit(onmessage([Cur EXCEPT !.lastFrame = << >>, !.upsertCalls = << >>,
                                    !.lastType = type],
                        s, Msg(TRUE, type, << >>, "")).state)

\* A heartbeat interval fires.  (An interval counted in deadIntervals is bound
\* to a closed socket: its callback sends nothing.)
PingTick ==
  \E s \in pingIntervals :
    /\ sockets[s].pings < MaxPings
    /\ Commit(pingTick(Cur, s))

\* A session that stays active, with its heartbeat and the status frames that
\* make it close a transport.  (Spec leaves the heartbeat ticks out: a ping
\* changes nothing the connection machine reads.)
NextHeartbeat ==
  \/ Activate
  \/ Reactivate
  \/ SnapshotDone
  \/ ConfigDone
  \/ TransportOpen
  \/ TransportStatus
  \/ PingTick
  \/ TransportClose
  \/ ReconnectTimerFires

SpecHeartbeat == Init /\ [][NextHeartbeat]_vars

\* One activation whose transport opens and receives transcript frames.
\* (Spec leaves the frames out: the connection machine never reads the
\* transcripts.)
NextFrames ==
  \/ Activate
  \/ SnapshotDone
  \/ ConfigDone
  \/ TransportOpen
  \/ TransportTranscript
  \/ TransportUnconsumed

SpecFrames == Init /\ [][NextFrames]_vars

\* A transcript frame arrives whose segments may carry revision stamps.
TransportRevision == TransportFrame(RevisionFrames)

\* One activation whose transport opens and receives revisions of segments.
NextRevisions ==
  \/ Activate
  \/ SnapshotDone
  \/ ConfigDone
  \/ TransportOpen
  \/ TransportRevision

SpecRevisions == Init /\ [][NextRevisions]_vars

\* fetch("/api/config") settles and the WebSocket constructor accepts the URL.
ConfigAccepted ==
  \E e \in Epochs :
    /\ configFetches[e] > 0
    /\ Commit(connectResume(Cur, e, FALSE))

\* An established transport is lost: it closes with a code other than 1000.
TransportDrops ==
  \E s \in Epochs :
    /\ sockets[s].rs = "OPEN"
    /\ \E ev \in {c \in CloseEventsOf(s) : c.code # 1000}, k \in 0..JitterSteps :
         LET r0 == wsClosed(Cur, s)
             r1 == IF ev.failed THEN onerror(r0, s) ELSE r0
         IN Commit(retire(onclose(r1, s, ev.code, k), s))

\* A session that stays active (its effect may re-run with isActive still
\* true) and is never told that the meeting ended, with a server that accepts
\* every connection: transports are lost only once established.
NextLive ==
  \/ Activate
  \/ Reactivate
  \/ SnapshotDone
  \/ ConfigAccepted
  \/ TransportOpen
  \/ TransportAck
  \/ TransportDrops
  \/ ReconnectTimerFires

\* The event loop runs a setTimeout callback that is due; the config fetch
\* settles; the server completes the handshake of a connecting transport.
FairLive ==
  /\ WF_vars(ReconnectTimerFires)
  /\ WF_vars(ConfigAccepted)
  /\ WF_vars(TransportOpen)

SpecLive == Init /\ [][NextLive]_vars /\ FairLive

\* The meeting has loaded with a live status.  In one commit the hook's effect
\* activates (lines 345-367) and the page's effect calls fetchTranscripts
\* (page.tsx:381-385), which sets a flag and awaits vexaAPI.getTranscripts
\* (meetings-store.ts:98-101).
MeetingLoaded ==
  /\ phase = "init"
  /\ Commit([effectActive(Cur) EXCEPT !.pageFetch = "pending"])

\* The page's fetchTranscripts settles with rows: set({ transcripts }) after
\* the sort, meetings-store.ts:101-104.
PageFetchDone ==
  /\ pageFetch = "pending"
  /\ \E list \in SnapshotLists :
       Commit([Cur EXCEPT !.transcripts = sortByStart(list), !.pageFetch = "done"])

\* The meeting page with a live meeting: the hook's session and the page's
\* own one-shot transcript fetch, both writing useMeetingsStore.transcripts.
NextPage ==
  \/ MeetingLoaded
  \/ SnapshotDone
  \/ ConfigDone
  \/ TransportOpen
  \/ TransportRevision
  \/ PageFetchDone

SpecPage == Init /\ [][NextPage]_vars

\* ---- the stores on their own ----

\* useLiveStore.setActiveMeeting, part_012:34-40: the live list starts over.
SetActiveMeeting ==
  /\ liveTranscripts # << >>
  /\ Commit([Cur EXCEPT !.liveTranscripts = << >>])

AddLiveTranscript ==
  \E segment \in Segments :
    Commit([Cur EXCEPT !.liveTranscripts = addLiveTranscript(@, segment)])

UpdateLiveTranscript ==
  \E segment \in Segments :
    Commit([Cur EXCEPT !.liveTranscripts = updateLiveTranscript(@, segment)])

\* useMeetingsStore.fetchTranscripts settles with rows, meetings-store.ts:98-104.
FetchTranscripts ==
  \E list \in SnapshotLists :
    Commit([Cur EXCEPT !.transcripts = sortByStart(list)])

\* useMeetingsStore.clearCurrentMeeting, meetings-store.ts:117-119.
ClearCurrentMeeting ==
  /\ transcripts # << >>
  /\ Commit([Cur EXCEPT !.transcripts = << >>])

AddTranscriptSegment ==
  \E segment \in Segments :
    Commit([Cur EXCEPT !.transcripts = addTranscriptSegment(@, segment)])

UpdateTranscriptSegment ==
  \E segment \in Segments :
    Commit([Cur EXCEPT !.transcripts = updateTranscriptSegment(@, segment)])

NextStore ==
  \/ SetActiveMeeting
  \/ AddLiveTranscript
  \/ UpdateLiveTranscript
  \/ FetchTranscripts
  \/ ClearCurrentMeeting
  \/ AddTranscriptSegment
  \/ UpdateTranscriptSegment

SpecStore == Init /\ [][NextStore]_vars

TypeOK ==
  /\ phase \in {"init", "active", "inactive", "unmounted"}
  /\ epoch \in 0..MaxActivations
  /\ wsRef \in Epochs \cup {Null}
  /\ pingIntervalRef \in Epochs \cup {Null}
  /\ reconnectTimeoutRef \in Epochs \cup {Null}
  /\ pingIntervals \subseteq Epochs
  /\ reconnectAttempts = reconnectAttemptsRef

\* A chain holds one thing at a time: its fetch, its socket or its timer; and a
\* referenced interval is a live one.
ChainOK ==
  /\ \A e \in Epochs :
       /\ configFetches[e] + timers[e]
            + (IF e \in snapshotFetches THEN 1 ELSE 0)
            + (IF sockets[e].rs \in {"CONNECTING", "OPEN", "CLOSING"} THEN 1 ELSE 0)
            + (IF sockets[e].rs = "CLOSED" /\ e \in pingIntervals THEN 1 ELSE 0) <= 1
       /\ e > epoch => sockets[e] = NoSocket
  /\ pingIntervalRef # Null => pingIntervalRef \in pingIntervals


\* ---- observations used by the claims ----

LiveSockets == {e \in Epochs : sockets[e].rs \in {"CONNECTING", "OPEN"}}

RECURSIVE SumTo(_, _)
SumTo(f, n) == IF n = 0 THEN 0 ELSE f[n] + SumTo(f, n - 1)

PendingTimers == SumTo(timers, MaxActivations)
LiveIntervals == Cardinality(pingIntervals) + deadIntervals

\* This step's close handler called setTimeout.
TimerScheduled == \E e \in Epochs : timers'[e] > timers[e]

\* No activation is in force: isActive is false or the component is gone.
Deactivated == phase \in {"inactive", "unmounted"}

\* C1: in every reachable state at most one transport that is neither closing
\* nor closed exists (so each connect attempt has torn down the one before).
C1_AtMostOneTransport == Cardinality(LiveSockets) <= 1

\* C2: once a terminal meeting.status (completed or failed) has been handled,
\* no step of the same activation schedules a reconnect timer, whatever close
\* code the transport reports afterwards.
C2_TerminalHaltsReconnect ==
  [][(termSeen # 0 /\ termSeen' # 0) => ~TimerScheduled]_vars

\* C2 witness: a terminal status was handled and, after it, an abnormal close
\* was handled in the same activation.
C2_Witness == termSeen = 2 /\ phase = "active"

\* C3: a timer is scheduled only for attempts 1..10; the close that takes the
\* counter past 10 schedules nothing and sets the terminal error; and while the
\* counter is past 10 no connect attempt starts within the activation.
C3_CeilingStopsReconnect ==
  /\ [][TimerScheduled => reconnectAttemptsRef' \in 1..MAX_RECONNECT_ATTEMPTS]_vars
  /\ [][(reconnectAttemptsRef' > MAX_RECONNECT_ATTEMPTS
           /\ reconnectAttemptsRef' # reconnectAttemptsRef)
          => (timers' = timers /\ connectionError' = "max")]_vars
  /\ [][(reconnectAttemptsRef > MAX_RECONNECT_ATTEMPTS /\ epoch' = epoch)
          => \A e \in Epochs : configFetches'[e] <= configFetches[e]]_vars

\* The close handler of this step scheduled attempt n+1 right after attempt n.
NextAttemptScheduled ==
  /\ reconnectAttemptsRef >= 1
  /\ reconnectAttemptsRef' = reconnectAttemptsRef + 1
  /\ TimerScheduled

\* C4 as stated: for consecutive abnormal closes the scheduled delay never
\* decreases from one attempt to the next, for every jitter, capped attempts
\* included.
C4_DelaysNonDecreasing ==
  [][NextAttemptScheduled => lastDelay' >= lastDelay]_vars

\* C4 amended: the scheduled delay never decreases from attempt n to attempt
\* n+1 as long as the base delay of attempt n is below the cap.
C4_DelaysNonDecreasingBelowCap ==
  [][(NextAttemptScheduled
        /\ INITIAL_RECONNECT_DELAY * Pow2(reconnectAttemptsRef) < MAX_RECONNECT_DELAY)
       => lastDelay' >= lastDelay]_vars

\* C4 witness: the first capped attempt (the fifth) has been scheduled after
\* four uncapped ones.
C4_Witness ==
  /\ reconnectAttemptsRef = 5
  /\ PendingTimers = 1
  /\ lastDelay > getReconnectDelay(4, JitterSteps)

\* C5: every scheduled reconnect delay is at most the 30 second maximum.
C5_DelayAtMostMax == lastDelay <= MAX_RECONNECT_DELAY

\* C6: after the first abnormal close of an open transport exactly one reconnect
\* timer is pending and its delay is within 800..1200 ms (1 s, 20% jitter).
C6_FirstDelayInBounds ==
  (/\ reconnectAttemptsRef = 1
   /\ \E e \in Epochs : sockets[e].rs = "CLOSED" /\ sockets[e].est /\ timers[e] > 0)
    => (PendingTimers = 1 /\ lastDelay \in 800..1200)

\* C7: while no activation is in force no reconnect timer is pending (none is
\* created by a late close event and none survives the teardown).
C7_NoTimerWhileDeactivated == Deactivated => PendingTimers = 0

\* C8: for one session key, without isActive turning false in between, the
\* snapshot is requested at most once, however often the effect re-runs.
C8_SingleSnapshot == snapReqs <= 1

\* C9: at most one heartbeat interval and at most one reconnect timeout are
\* alive in every reachable state.
C9_OneTimerEach == LiveIntervals <= 1 /\ PendingTimers <= 1

\* C10: while no activation is in force, no step constructs a transport, points
\* the transport reference at a transport, raises the connecting or connected
\* flag or changes the connection error (the only steps that can are the
\* continuations started before the deactivation).
C10_NoStaleContinuation ==
  [][(Deactivated /\ phase' = phase)
       => /\ wsRef' \in {wsRef, Null}
          /\ \A e \in Epochs : sockets'[e].rs = "CONNECTING" => sockets[e].rs = "CONNECTING"
          /\ isConnecting' => isConnecting
          /\ isConnected' => isConnected
          /\ connectionError' = connectionError]_vars

\* Transports on which a subscribe is in effect.
Subscribed == {e \in Epochs : sockets[e].rs = "OPEN" /\ sockets[e].sub}

\* C11: when activation repeats with the same platform, native id and
\* isActive = true, at most one transport is alive and at most one subscribe is
\* in effect at any time.
C11_ActivationIdempotent ==
  Cardinality(LiveSockets) <= 1 /\ Cardinality(Subscribed) <= 1

\* What a teardown has to leave behind, as a predicate of the state record:
\* no heartbeat interval and no reconnect timeout alive or referenced, no
\* transport still connecting or open, no transport referenced, and
\* reconnection disabled.
TornDown(r) ==
  /\ r.pingIntervals = {} /\ r.deadIntervals = 0 /\ r.pingIntervalRef = Null
  /\ SumTo(r.timers, MaxActivations) = 0 /\ r.reconnectTimeoutRef = Null
  /\ \A e \in Epochs : r.sockets[e].rs \notin {"CONNECTING", "OPEN"}
  /\ r.wsRef = Null
  /\ ~r.shouldReconnectRef

\* This step is a teardown: isActive turned false, a dependency changed, or the
\* component unmounted.
TeardownStep == phase = "active" /\ (phase' # "active" \/ epoch' # epoch)

\* C12: every teardown leaves the session torn down as soon as the effect's
\* cleanup function has run, before the active body of a new activation
\* starts, and a teardown that ends inactive or unmounted ends torn down.
C12_TeardownComplete ==
  [][TeardownStep => /\ TornDown(effectCleanup(Cur))
                     /\ (phase' # "active" => TornDown(Cur'))]_vars

\* ---- observations on the stores ----

\* No two positions of the list hold the same absolute_start_time.
UniqueKeys(list) ==
  \A i, j \in 1..Len(list) :
    list[i].absolute_start_time = list[j].absolute_start_time => i = j

SortedByStart(list) ==
  \A i, j \in 1..Len(list) : i < j => list[i].start_time <= list[j].start_time

LaterRevisionKept(old, new, segment) ==
  LET i == findIndex(old, segment.absolute_start_time)
  IN (/\ i # 0
      /\ old[i].updated_at # Undefined /\ segment.updated_at # Undefined
      /\ old[i].updated_at # segment.updated_at)
       => /\ Len(new) = Len(old)
          /\ new[i] = (IF segment.updated_at > old[i].updated_at
                       THEN segment ELSE old[i])

\* C14: when a segment is upserted over a stored one of the same key and the
\* two carry different updated_at, the store keeps the one with the later
\* updated_at, whichever of the two arrived first; in both stores.
C14_LastWriteWinsByRevision ==
  [][\A segment \in Segments :
       /\ liveTranscripts' = addLiveTranscript(liveTranscripts, segment)
            => LaterRevisionKept(liveTranscripts, liveTranscripts', segment)
       /\ transcripts' = addTranscriptSegment(transcripts, segment)
            => LaterRevisionKept(transcripts, transcripts', segment)]_vars

\* C15: in every reachable state of either store and for every segment,
\* upserting the segment twice gives the same list (same segments, same order)
\* as upserting it once.
C15_UpsertIdempotent ==
  \A segment \in Segments :
    /\ addLiveTranscript(addLiveTranscript(liveTranscripts, segment), segment)
         = addLiveTranscript(liveTranscripts, segment)
    /\ addTranscriptSegment(addTranscriptSegment(transcripts, segment), segment)
         = addTranscriptSegment(transcripts, segment)

\* C15 witness: each store holds a segment with a revision next to another
\* segment, and upserting that stored segment once more changes nothing.
C15_Witness ==
  /\ Len(liveTranscripts) = MaxKey /\ Len(transcripts) = MaxKey
  /\ \E i \in 1..MaxKey :
       /\ liveTranscripts[i].updated_at # Undefined
       /\ addLiveTranscript(liveTranscripts, liveTranscripts[i]) = liveTranscripts
  /\ \E i \in 1..MaxKey :
       /\ transcripts[i].updated_at # Undefined
       /\ addTranscriptSegment(transcripts, transcripts[i]) = transcripts

\* The list new is the list old with the stored segment of the incoming
\* segment's key replaced by the incoming one, and nothing else changed.
ReplacedInPlace(old, new, segment) ==
  LET i == findIndex(old, segment.absolute_start_time)
  IN /\ Len(new) = Len(old)
     /\ \A j \in 1..Len(old) : new[j] = (IF j = i THEN segment ELSE old[j])

\* C16: in every reachable state of either store, upserting a segment whose
\* key is stored, when the incoming or the stored one lacks updated_at,
\* replaces the stored segment by the incoming one and keeps the number of
\* segments (so a seeded segment without updated_at gives way to a later
\* update of its key, whose text is then the stored one).
C16_OverwriteWithoutRevision ==
  \A segment \in Segments :
    /\ LET i == findIndex(liveTranscripts, segment.absolute_start_time)
       IN (i # 0 /\ (segment.updated_at = Undefined
                       \/ liveTranscripts[i].updated_at = Undefined))
            => ReplacedInPlace(liveTranscripts,
                               addLiveTranscript(liveTranscripts, segment), segment)
    /\ LET i == findIndex(transcripts, segment.absolute_start_time)
       IN (i # 0 /\ (segment.updated_at = Undefined
                       \/ transcripts[i].updated_at = Undefined))
            => ReplacedInPlace(transcripts,
                               addTranscriptSegment(transcripts, segment), segment)

\* C16 witness: both stores hold every key, no stored segment carries
\* updated_at, and both are out of order: a segment without updated_at has
\* replaced a stored one in place.
C16_Witness ==
  /\ Len(liveTranscripts) = MaxKey /\ ~SortedByStart(liveTranscripts)
  /\ \A i \in 1..MaxKey : liveTranscripts[i].updated_at = Undefined
  /\ Len(transcripts) = MaxKey /\ ~SortedByStart(transcripts)
  /\ \A i \in 1..MaxKey : transcripts[i].updated_at = Undefined

\* C17: after any sequence of seeds and upserts, updates that change the
\* start_time of a stored key included, each store lists its segments in the
\* order of start_time.
C17_SortedByStartTime == SortedByStart(liveTranscripts) /\ SortedByStart(transcripts)

\* ---- observations on transcript frames ----

\* The text is there and has a character that is not white space.
HasVisibleText(text) ==
  text # << >> /\ \E i \in 1..Len(text[1]) : text[1][i] # " "

\* The positions of the frame whose segment has a visible text and a key.
ValidEntries(frame) ==
  {i \in 1..Len(frame) :
     HasVisibleText(frame[i].text) /\ frame[i].absolute_start_time \in Keys}

\* The n-th of these positions.
NthValid(frame, n) ==
  CHOOSE i \in ValidEntries(frame) :
    Cardinality({j \in ValidEntries(frame) : j <= i}) = n

\* C18: for the transcript frame delivered last, no upsert call was made when
\* no entry has a visible text and a key; otherwise exactly one call was made
\* and its argument lists exactly those entries, in the frame's order, with
\* their key and text; and no stored segment lacks a visible text or a key.
C18_OnlyValidEntriesUpserted ==
  /\ ValidEntries(lastFrame) = {} => upsertCalls = << >>
  /\ ValidEntries(lastFrame) # {} =>
       /\ Len(upsertCalls) = 1
       /\ Len(upsertCalls[1]) = Cardinality(ValidEntries(lastFrame))
       /\ \A n \in 1..Len(upsertCalls[1]) :
            LET seg == lastFrame[NthValid(lastFrame, n)]
            IN /\ upsertCalls[1][n].absolute_start_time = seg.absolute_start_time
               /\ upsertCalls[1][n].text = seg.text[1]
  /\ \A i \in 1..Len(transcripts) :
       /\ HasVisibleText(<<transcripts[i].text>>)
       /\ transcripts[i].absolute_start_time \in Keys

\* C18 witness: the frame delivered last had a blank entry followed by a
\* valid one, one call was made and the store holds a segment; and the blank
\* entry's key is not stored.
C18_Witness ==
  /\ Len(lastFrame) = 2
  /\ ValidEntries(lastFrame) = {2}
  /\ lastFrame[1].text = <<<<" ">>>>
  /\ lastFrame[1].absolute_start_time \in Keys
  /\ lastFrame[1].absolute_start_time # lastFrame[2].absolute_start_time
  /\ Len(upsertCalls) = 1
  /\ Len(transcripts) = 1
  /\ transcripts[1].absolute_start_time = lastFrame[2].absolute_start_time

\* C19: whenever a transport is open and subscribed, the meeting.status handler
\* run on it forwards the status; for a terminal status it also disables reconnection
\* and closes that transport, whatever the attempt counter; for any other
\* status it leaves the transport open and reconnection as it was.
C19_StatusHandling ==
  \A s \in Epochs, status \in Statuses :
    s \in Subscribed =>
      LET r == onmessageStatus(Cur, s, status)
      IN /\ r.meetingStatus = status
         /\ status \in {"completed", "failed"} =>
              ~r.shouldReconnectRef /\ r.sockets[s].rs = "CLOSING"
         /\ status \notin {"completed", "failed"} =>
              r.sockets[s].rs = "OPEN" /\ r.shouldReconnectRef = shouldReconnectRef

\* This step is the opening of transport s.
Opens(s) == sockets[s].rs = "CONNECTING" /\ sockets'[s].rs = "OPEN"

\* C20: while the session stays active, the step that opens a transport sends
\* the subscribe on it, before any ping, starts the heartbeat interval bound
\* to it and sets the attempt counter to 0; no other step sends a subscribe;
\* and a ping is sent only on a transport that is open, subscribed and has
\* its heartbeat interval alive.
C20_OpenSubscribesAndStartsHeartbeat ==
  [][\A s \in Epochs :
       /\ (Opens(s) /\ mountedRef) =>
            /\ ~sockets[s].sub /\ sockets'[s].sub
            /\ sockets'[s].pings = 0
            /\ s \in pingIntervals' /\ pingIntervalRef' = s
            /\ reconnectAttemptsRef' = 0
       /\ (sockets'[s].sub /\ ~sockets[s].sub) => Opens(s)
       /\ sockets'[s].pings > sockets[s].pings =>
            /\ sockets[s].rs = "OPEN" /\ sockets'[s].rs = "OPEN"
            /\ sockets[s].sub
            /\ s \in pingIntervals]_vars

\* C20 witness: an open transport has sent its subscribe and MaxPings pings
\* and the counter is 0, while the heartbeat interval of the other
\* activation's transport is still alive although that transport is closing.
C20_Witness ==
  \E s, o \in Epochs :
    /\ sockets[s].rs = "OPEN" /\ sockets[s].sub /\ sockets[s].pings = MaxPings
    /\ pingIntervalRef = s /\ reconnectAttemptsRef = 0
    /\ sockets[o].rs = "CLOSING" /\ o \in pingIntervals

\* C21: whenever a snapshot fetch is in flight, its failure marks the
\* bootstrap complete, reports no error (the connection error is left alone
\* or cleared) and, while the hook is mounted and reconnection is permitted,
\* goes on to connect: a config fetch is started unless the referenced
\* transport is already open.
C21_SnapshotFailureNonFatal ==
  \A e \in snapshotFetches :
    LET r == bootstrapResume(Cur, e, TRUE)
    IN /\ r.bootstrappedRef
       /\ r.connectionError \in {connectionError, "none"}
       /\ (mountedRef /\ shouldReconnectRef) =>
            \/ r.configFetches[e] = configFetches[e] + 1 /\ r.isConnecting
            \/ wsRef # Null /\ sockets[wsRef].rs = "OPEN"

\* C21 witness: the snapshot fetch of the current activation has settled, the
\* bootstrap is marked complete and its connect awaits the config fetch.
C21_Witness ==
  /\ phase = "active" /\ epoch = 1
  /\ snapshotFetches = {} /\ bootstrappedRef
  /\ configFetches[1] = 1 /\ isConnecting /\ connectionError = "none"

\* C22: a teardown that ends inactive leaves the has-bootstrapped flag reset,
\* and an activation that follows a change of platform or native id (the
\* cleanup function, then the active body) finds the flag reset and issues a
\* snapshot fetch of its own.
C22_TeardownResetsBootstrap ==
  [][/\ (phase = "active" /\ phase' = "inactive") => ~bootstrappedRef'
     /\ ParamsChangeWith(FALSE) =>
          ~effectCleanup(Cur).bootstrappedRef /\ epoch' \in snapshotFetches']_vars

\* C23: whenever a transport can fail, the error event delivered on it (the
\* browser has just closed the socket) changes nothing but the connection
\* error, which a mounted hook sets to the transport error: the connecting and
\* connected flags, the attempt counter, the refs, the sockets, the intervals
\* and the timers are as they were.
C23_ErrorEventOnlyRecords ==
  \A s \in Epochs :
    sockets[s].rs \in {"CONNECTING", "OPEN", "CLOSING"} =>
      LET r0 == wsClosed(Cur, s)
          r == onerror(r0, s)
      IN /\ [r EXCEPT !.connectionError = r0.connectionError] = r0
         /\ mountedRef => r.connectionError = "transport"

\* C23 witness: a failed transport of the current activation was closed with
\* an error event; the error is recorded and the close event, not the error,
\* scheduled the reconnect.
C23_Witness ==
  /\ phase = "active" /\ connectionError = "transport"
  /\ sockets[epoch].rs = "CLOSED" /\ timers[epoch] = 1
  /\ reconnectAttemptsRef = 1 /\ ~isConnected /\ ~isConnecting

\* This step is the connect() of run e failing to construct its WebSocket: its
\* config fetch settles and no socket comes of it.
ConstructionFails(e) ==
  configFetches'[e] = configFetches[e] - 1 /\ sockets'[e] = sockets[e]

\* C24: when the construction of the transport fails, a mounted hook reports
\* the error, no reconnect timer is scheduled, the attempt counter is
\* unchanged, and the connecting flag was not raised for the attempt: it is
\* false while the attempt is under way and after it.
C24_ConstructionFailure ==
  [][\A e \in Epochs :
       ConstructionFails(e) =>
         /\ mountedRef => connectionError' = "ctor"
         /\ timers' = timers
         /\ reconnectAttemptsRef' = reconnectAttemptsRef
         /\ ~isConnecting /\ ~isConnecting']_vars

\* C25: whenever a transport is open and subscribed, the handler of a
\* server-reported error frame run on it sets the connection error to the
\* frame's message and changes nothing else: transport, flags, heartbeat,
\* reconnection and stores stay as they were.
C25_ServerErrorFrame ==
  \A s \in Subscribed :
    LET r == onmessageError(Cur, s)
    IN /\ r.connectionError = "server"
       /\ [r EXCEPT !.connectionError = connectionError] = Cur

\* C26: on every transport, a frame that is not JSON or whose type is none of
\* the six consumed ones is handled without an exception leaving the handler
\* and without any change to the transcript stores, the meeting status, the
\* connection state, the timers or the transport.
C26_UnconsumedFrameIgnored ==
  \A s \in Epochs, data \in Unconsumed :
    sockets[s].rs = "OPEN" =>
      onmessage(Cur, s, data) = [state |-> Cur, threw |-> FALSE]

\* An unparseable frame has been handled on the open, subscribed transport
\* of a session whose store holds a segment.
C26_Witness ==
  /\ lastType = "unparseable"
  /\ wsRef \in Subscribed /\ isConnected /\ pingIntervalRef = wsRef
  /\ Len(transcripts) = 1

\* The store holds, for the key of segment seg, a segment with a later
\* revision stamp.
StoredIsLater(seg) ==
  \E i \in 1..Len(transcripts) :
    /\ transcripts[i].absolute_start_time = seg.absolute_start_time
    /\ transcripts[i].updated_at # Undefined /\ seg.updated_at # Undefined
    /\ transcripts[i].updated_at > seg.updated_at

\* C27: in every state and for every list of segments, a transcript.finalized
\* frame leaves the stores exactly as a transcript.mutable frame with the same
\* segments does; a finalized segment whose stored counterpart has a later
\* revision stamp leaves that counterpart in place.
C27_FinalizedAsMutable ==
  \A s \in Epochs, frame \in RevisionFrames \cup Frames :
    sockets[s].rs = "OPEN" =>
      LET m == onmessage(Cur, s, Msg(TRUE, "transcript.mutable", frame, ""))
          f == onmessage(Cur, s, Msg(TRUE, "transcript.finalized", frame, ""))
      IN /\ f = m
         /\ (mountedRef /\ Len(frame) = 1 /\ StoredIsLater(frame[1])) =>
              f.state.transcripts = transcripts

\* A finalized frame has been handled whose one segment carried revision 1
\* while the store held revision 2 for its key, and the store still does.
C27_Witness ==
  /\ lastType = "transcript.finalized"
  /\ Len(lastFrame) = 1 /\ lastFrame[1].updated_at = 1
  /\ upsertCalls # << >>
  /\ \E i \in 1..Len(transcripts) :
       /\ transcripts[i].absolute_start_time = lastFrame[1].absolute_start_time
       /\ transcripts[i].updated_at = 2

\* C28: whenever the session is active and the current activation has a
\* transport, a snapshot has been requested for its session key and the
\* activation's snapshot fetch has settled.
C28_SnapshotBeforeTransport ==
  (phase = "active" /\ sockets[epoch].rs # "NONE") =>
    snapReqs >= 1 /\ epoch \notin snapshotFetches

\* C29: for every close event a transport can receive, the close handler
\* schedules a reconnect timer only if the code is not 1000, reconnection is
\* permitted and the attempt counter before the close is below the maximum;
\* on a close with code 1000 while the session is active it schedules nothing
\* and leaves the attempt counter as it was.
C29_ReconnectScheduledOnlyWhen ==
  \A s \in Epochs :
    sockets[s].rs \in {"CONNECTING", "OPEN", "CLOSING"} =>
      \A ev \in CloseEventsOf(s), k \in 0..JitterSteps :
        LET r0 == wsClosed(Cur, s)
            r1 == IF ev.failed THEN onerror(r0, s) ELSE r0
            r == onclose(r1, s, ev.code, k)
        IN /\ r.timers # timers =>
                /\ ev.code # 1000 /\ shouldReconnectRef
                /\ reconnectAttemptsRef < MAX_RECONNECT_ATTEMPTS
           /\ (ev.code = 1000 /\ phase = "active") =>
                /\ r.timers = timers
                /\ r.reconnectAttemptsRef = reconnectAttemptsRef
                /\ r.reconnectTimeoutRef = reconnectTimeoutRef

\* The close that made the counter reach the maximum has scheduled the last
\* reconnect timer of the session.
C29_Witness ==
  /\ phase = "active" /\ shouldReconnectRef
  /\ reconnectAttemptsRef = MAX_RECONNECT_ATTEMPTS
  /\ reconnectTimeoutRef = epoch /\ timers[epoch] = 1
  /\ sockets[epoch].rs = "CLOSED" /\ ~isConnected /\ ~isConnecting

\* A transport of the active session was lost and the close handler has
\* scheduled a reconnect.
ReconnectScheduled ==
  /\ phase = "active" /\ shouldReconnectRef
  /\ \E s \in Epochs : sockets[s].rs = "CLOSED" /\ timers[s] > 0

\* C30: under fairness of the timers and of the network, in a session that
\* stays active with reconnection enabled and a server that accepts
\* connections, an abnormal close that scheduled a reconnect leads to the
\* hook being connected again, on a referenced transport that is open and
\* subscribed.
C30_ReconnectsEventually ==
  ReconnectScheduled ~> (isConnected /\ wsRef \in Subscribed)

\* C31: in every store state, upserting two segments with different keys
\* gives the same list in either order, in the live store and in the
\* meetings store, equal start times included.
C31_DistinctKeysCommute ==
  \A a, b \in Segments :
    a.absolute_start_time # b.absolute_start_time =>
      /\ addLiveTranscript(addLiveTranscript(liveTranscripts, a), b)
           = addLiveTranscript(addLiveTranscript(liveTranscripts, b), a)
      /\ addTranscriptSegment(addTranscriptSegment(transcripts, a), b)
           = addTranscriptSegment(addTranscriptSegment(transcripts, b), a)

\* The list holds a segment of segment's key, both carry updated_at, and the
\* incoming one is not newer than the stored one.
NotNewer(list, segment) ==
  LET i == findIndex(list, segment.absolute_start_time)
  IN /\ i # 0
     /\ list[i].updated_at # Undefined /\ segment.updated_at # Undefined
     /\ segment.updated_at <= list[i].updated_at

\* C32: in either store, upserting a segment whose updated_at is older than
\* or equal to the updated_at of the stored segment of its key leaves the
\* list as it was.
C32_StaleUpsertIgnored ==
  \A segment \in Segments :
    /\ NotNewer(liveTranscripts, segment) =>
         addLiveTranscript(liveTranscripts, segment) = liveTranscripts
    /\ NotNewer(transcripts, segment) =>
         addTranscriptSegment(transcripts, segment) = transcripts

\* Every segment of the list old has, in the list new, a segment of its key
\* that is not an older revision of it.
KeysKept(old, new) ==
  \A i \in 1..Len(old) :
    \E j \in 1..Len(new) :
      /\ new[j].absolute_start_time = old[i].absolute_start_time
      /\ (new[j].updated_at # Undefined /\ old[i].updated_at # Undefined)
           => new[j].updated_at >= old[i].updated_at

\* C33: while the session stays active, no step removes a key from the
\* transcript store or replaces a stored segment by an older revision.
C33_KeysPersist ==
  [][(phase = "active" /\ phase' = "active") => KeysKept(transcripts, transcripts')]_vars

\* C34: on every open transport, a subscribed frame and a pong frame are
\* handled without any change of state: stores, meeting status, flags,
\* connection error, attempt counter, timers, heartbeat and transports stay
\* as they were.
C34_AckFramesChangeNothing ==
  \A s \in Epochs, type \in AckTypes :
    sockets[s].rs = "OPEN" =>
      onmessage(Cur, s, Msg(TRUE, type, << >>, "")) = [state |-> Cur, threw |-> FALSE]

\* A pong has been handled while another transport of the session was lost
\* and its reconnect is pending: counter, error and timer are as the close
\* left them.
C34_Witness ==
  /\ lastType = "pong" /\ phase = "active"
  /\ Subscribed # {}
  /\ reconnectAttemptsRef = 1 /\ PendingTimers = 1 /\ connectionError = "transport"

\* C35: in every reachable state the hook does not expose isConnecting and
\* isConnected both true.
C35_NotConnectingAndConnected == ~(isConnecting /\ isConnected)

\* C36: whenever isConnected is true, wsRef points at an open transport and
\* the heartbeat interval bound to that transport is alive.
C36_ConnectedMeansOpenWithHeartbeat ==
  isConnected =>
    /\ wsRef # Null /\ sockets[wsRef].rs = "OPEN"
    /\ wsRef \in pingIntervals

\* The transports that can still deliver events and are not the one wsRef
\* points at.
StaleTransports ==
  {s \in Epochs : s # wsRef /\ sockets[s].rs \in {"CONNECTING", "OPEN", "CLOSING"}}

\* The state record r has the connection of the state as it is: heartbeat
\* reference, connected flag, attempt counter and reconnect timers.
ConnectionUntouched(r) ==
  /\ r.pingIntervalRef = pingIntervalRef
  /\ r.isConnected = isConnected
  /\ r.reconnectAttemptsRef = reconnectAttemptsRef
  /\ r.timers = timers

\* C37: while wsRef points at a transport, the close event and the open event
\* of any other transport leave the current connection as it is: heartbeat
\* not cleared, connected flag not changed, attempt counter not incremented,
\* no reconnect scheduled.
C37_StaleEventsIgnored ==
  \A s \in StaleTransports :
    wsRef # Null =>
      /\ \A ev \in CloseEventsOf(s), k \in 0..JitterSteps :
           LET r0 == wsClosed(Cur, s)
               r1 == IF ev.failed THEN onerror(r0, s) ELSE r0
           IN ConnectionUntouched(onclose(r1, s, ev.code, k))
      /\ sockets[s].rs = "CONNECTING" =>
           ConnectionUntouched(onopen([Cur EXCEPT !.sockets[s].rs = "OPEN",
                                                  !.sockets[s].est = TRUE], s))

\* C38: whenever the session is active and wsRef points at an open transport,
\* the subscribe has been sent on that transport.
C38_OpenReferencedIsSubscribed ==
  (phase = "active" /\ wsRef # Null /\ sockets[wsRef].rs = "OPEN") =>
    sockets[wsRef].sub

\* C39: the reconnect attempt counter stays within 0..11, and a step sets the
\* terminal error only when it leaves the counter above the ceiling of 10.
C39_CounterBounded ==
  /\ [](reconnectAttemptsRef \in 0..(MAX_RECONNECT_ATTEMPTS + 1))
  /\ [][(connectionError' = "max" /\ connectionError # "max")
          => reconnectAttemptsRef' > MAX_RECONNECT_ATTEMPTS]_vars

====
